---------------------------- MODULE Spec2Model ----------------------------
(***************************************************************************)
(* A model of the ndex2 client library: the CX upload path of              *)
(* ndex2.client.Ndex2 (save_new_network), its operations that need         *)
(* credentials, its constructor, request methods, visibility, query and    *)
(* delete operations and its JSON encoder, the NiceCXBuilder staging       *)
(* inventories, fragment methods and their flush into a NiceCXNetwork,     *)
(* the attribute subsystem of NiceCXNetwork and the style transplant       *)
(* (apply_style_from_network).                                             *)
(*                                                                         *)
(* Python values of mixed type are modelled as records with a "kind"       *)
(* field, so that None, a string and a dict can sit in the same list.      *)
(***************************************************************************)
EXTENDS Integers, Sequences, FiniteSets, TLC

\* ------------------------------------------------------------------ bounds
\* Longest cx list a caller hands to save_new_network.
MaxCxLen == 2
\* Number of save_new_network calls on one in-memory list.
MaxCalls == 3
\* Calls of the other client operations that reach the transport.
MaxRequests == 2

\* =========================================================================
\* Part 1.  ndex2.client.Ndex2.save_new_network
\* =========================================================================

VARIABLES
    cx,        \* the caller's cx argument: [kind, items]
    auth,      \* TRUE iff the session carries credentials (self.s.auth)
    stream,    \* the last BytesIO built: [made, body]
    outcome,   \* how the last save_new_network call ended
    posted,    \* number of multipart POST requests sent so far
    calls,     \* save_new_network calls made on this list
    cxBefore,  \* history: cx as it was before the last call
    cxFirst,   \* history: cx as it was after the first call on this list
    creds,     \* the username and password given to the constructor (set or not)
    requests,  \* calls of the operations below that sent an HTTP request
    lastOp     \* history: the last of those calls: [op, outcome, sent]

\* The connection made by the constructor and the requests sent over it.
VARIABLES
    ua_arg,      \* history: the user_agent argument of the constructor
    user_agent,  \* self.user_agent
    reported,    \* history: what the constructor learnt about the server
    version,     \* self.version
    s_headers,   \* self.s.headers, the persistent headers of the session
    sent,        \* requests sent by the request methods
    lastReq,     \* history: the last request sent: [sender, headers, body]
    lastCall,    \* history: the last operation called: [op, outcome, sent, body]
    deleting,    \* the delete operation under way: [op, retry, count, pc, log, error]
    encIn,       \* the list handed to json.dumps(..., cls=DecimalEncoder)
    encOut       \* what that call came to: [done, status, json, reentries]

uploadVars ==
    <<cx, auth, stream, outcome, posted, calls, cxBefore, cxFirst, creds,
      requests, lastOp>>

httpVars ==
    <<ua_arg, user_agent, reported, version, s_headers, sent, lastReq,
      lastCall, deleting>>

encVars == <<encIn, encOut>>

clientVars == <<uploadVars, httpVars, encVars>>

\* A record of a status bundle.  Absent fields of the dict are "absent".
OkRecord == [error |-> "", success |-> "true"]
EmptyRecord == [error |-> "absent", success |-> "absent"]

\* What a caller can put in a cx list.
NoneElem == [kind |-> "None", aspect |-> "", val |-> "None", recs |-> <<>>]
StrElem == [kind |-> "str", aspect |-> "", val |-> "None", recs |-> <<>>]
Bundle(a, v, r) == [kind |-> "dict", aspect |-> a, val |-> v, recs |-> r]
NodesBundle == Bundle("nodes", "list", <<>>)
StatusBundle(r) == Bundle("status", "list", r)
StatusOk == <<OkRecord>>

CxElems ==
    {NoneElem, StrElem, NodesBundle,
     Bundle("status", "None", <<>>), Bundle("status", "str", <<>>),
     StatusBundle(<<>>), StatusBundle(StatusOk),
     StatusBundle(<<EmptyRecord>>), StatusBundle(<<OkRecord, OkRecord>>)}

SeqsUpTo(S, n) == UNION {[1..k -> S] : k \in 0..n}

CxArgs ==
    {[kind |-> "None", items |-> <<>>], [kind |-> "notlist", items |-> <<>>]}
    \cup {[kind |-> "list", items |-> s] : s \in SeqsUpTo(CxElems, MaxCxLen)}

NoStream == [made |-> FALSE, body |-> <<>>]

\* dict.get('status') of the last element: the value kind under that key.
GetStatusKind(e) == IF e.aspect = "status" THEN e.val ELSE "None"

\* json.dumps(cx, cls=DecimalEncoder): a list element becomes a JSON value.
JsonKind(k) ==
    CASE k = "None" -> "null"
      [] k = "str" -> "string"
      [] k = "dict" -> "object"
      [] k = "list" -> "array"

JsonOf(e) ==
    [kind |-> JsonKind(e.kind), aspect |-> e.aspect,
     val |-> JsonKind(e.val), recs |-> e.recs]

Dumps(items) == [i \in 1..Len(items) |-> JsonOf(items[i])]

\* Lines 362-367: the three rejections.
Rejection(c) ==
    IF c.kind = "None" THEN "NDExInvalidCXError: CX is None"
    ELSE IF c.kind # "list" THEN "NDExInvalidCXError: CX is not a list"
    ELSE IF Len(c.items) = 0 THEN "NDExInvalidCXError: CX appears to be empty"
    ELSE "none"

NormalizeAlwaysAppend(items) == Append(items, StatusBundle(StatusOk))

\* Lines 371-376: the status normalisation of a list whose last element is a
\* dict.  "AttributeError"/"TypeError" cases are decided by NormalizeError.
NormalizeStatus(items) ==
    LET last == items[Len(items)] IN
    IF GetStatusKind(last) = "None"
    THEN Append(items, StatusBundle(StatusOk))
    ELSE IF Len(last.recs) < 1
         THEN [items EXCEPT ![Len(items)] =
                  StatusBundle(Append(last.recs, OkRecord))]
         ELSE items

\* The exception lines 371-376 raise before anything is changed, or "none":
\* a last element that is no dict has no get(), and a status value that is
\* the empty string passes len() < 1 and has no append().
NormalizeError(items) ==
    LET last == items[Len(items)] IN
    IF last.kind = "str" THEN "AttributeError"
    ELSE IF GetStatusKind(last) = "str" THEN "AttributeError"
    ELSE "none"

\* save_new_network(cx) followed by save_cx_stream_as_new_network and
\* post_multipart; httpOk is the server's answer to the POST.
SaveNewNetwork ==
    /\ calls < MaxCalls
    /\ calls' = calls + 1
    /\ cxBefore' = cx
    /\ UNCHANGED <<auth, creds, requests, lastOp, httpVars, encVars>>
    /\ IF Rejection(cx) # "none"
       THEN /\ outcome' = Rejection(cx)
            /\ UNCHANGED <<cx, stream, posted>>
       ELSE LET items == cx.items
                last == items[Len(items)] IN
            IF last.kind = "None"
            THEN \* the stream variable is never bound: line 383 fails
                 /\ outcome' = "UnboundLocalError"
                 /\ UNCHANGED <<cx, stream, posted>>
            ELSE IF NormalizeError(items) # "none"
            THEN /\ outcome' = NormalizeError(items)
                 /\ UNCHANGED <<cx, stream, posted>>
            ELSE /\ cx' = [cx EXCEPT !.items = NormalizeStatus(items)]
                 /\ stream' = [made |-> TRUE, body |-> Dumps(cx'.items)]
                 /\ IF ~auth
                    THEN /\ outcome' = "NDExUnauthorizedError"
                         /\ UNCHANGED posted
                    ELSE /\ posted' = posted + 1
                         /\ \E httpOk \in BOOLEAN :
                               outcome' = IF httpOk THEN "ok" ELSE "HTTPError"
    /\ cxFirst' = IF calls = 0 THEN cx' ELSE cxFirst

\* --- the operations documented to need credentials ------------------------
\* Every method whose docstring says ":raises NDExUnauthorizedError: If
\* credentials are invalid or not set".
GatedOps ==
    {"save_cx_stream_as_new_network", "update_cx_network", "get_task_by_id",
     "delete_network", "set_provenance", "set_read_only",
     "set_network_properties", "set_network_sample",
     "set_network_system_properties", "update_network_profile",
     "get_sample_network"}

\* The methods that call self._require_auth() before anything else;
\* get_sample_network (lines 1757-1758) goes straight to self.get.
CallsRequireAuth(op) == op # "get_sample_network"

\* The methods that raise Exception on an argument of the wrong type, after
\* the credentials check and before the request.
ChecksArguments(op) ==
    op \in {"set_network_properties", "set_network_system_properties",
            "update_network_profile"}

\* Lines 157-162: the session carries credentials or the call ends here.
RequireAuth == IF auth THEN "none" ELSE "NDExUnauthorizedError"

NoOp == [op |-> "none", outcome |-> "none", sent |-> FALSE]

\* One call of a method of GatedOps; the server answers as it likes.
ClientCall ==
    /\ requests < MaxRequests
    /\ \E op \in GatedOps :
          IF CallsRequireAuth(op) /\ RequireAuth # "none"
          THEN /\ lastOp' = [op |-> op, outcome |-> RequireAuth, sent |-> FALSE]
               /\ UNCHANGED requests
          ELSE \E result \in {"ok", "HTTPError"} \cup
                              (IF ChecksArguments(op) THEN {"Exception"} ELSE {}) :
                  /\ lastOp' = [op |-> op, outcome |-> result,
                                sent |-> result # "Exception"]
                  /\ requests' = IF result = "Exception" THEN requests
                                 ELSE requests + 1
    /\ UNCHANGED <<cx, auth, stream, outcome, posted, calls, cxBefore, cxFirst,
                   creds, httpVars, encVars>>


\* =========================================================================
\* Part 2.  ndex2cx.NiceCXBuilder and the NiceCXNetwork it fills
\* =========================================================================

\* ------------------------------------------------------------------ bounds
\* Attribute records staged in the builder (add_node_attribute calls).
MaxStaged == 2
\* set_node_attribute calls made on the network model.
MaxSets == 2
\* get_nice_cx calls on one builder.
MaxBuilds == 2
\* Edge ids the builder's counter hands out.
MaxEdges == 2
\* Records in the network attribute list of one network.
MaxNetAttrs == 3
\* Fragments ingested by one builder.
MaxFragments == 3

VARIABLES
    node_id_counter,              \* NiceCXBuilder.node_id_counter
    edge_id_counter,              \* NiceCXBuilder.edge_id_counter
    node_inventory,               \* dict name -> node, in insertion order
    node_attribute_inventory,     \* list of staged node attribute records
    edge_inventory,               \* dict edge id -> edge, in insertion order
    edge_attribute_inventory,     \* list of staged edge attribute records
    opaque_aspect_inventory,      \* list of {name: records}
    context_inventory,            \* [] at construction, a dict after set_context
    network_attribute_inventory,  \* dict name -> network attribute
    nice_cx,                      \* the NiceCXNetwork owned by the builder
    lastAdd,                      \* history: the last add_node call and its result
    lastSet,                      \* history: the last set_node_attribute call
    firstId,                      \* history: id returned by the first add_node of a name
    addLog,                       \* history: add_node_attribute calls, in call order
    flushed,                      \* history: Len(addLog) at the last get_nice_cx
    setLog,                       \* history: successful set_node_attribute calls, in call order
    overwritten,                  \* history: owners that saw an overwrite=True call
    builds,                       \* history: get_nice_cx calls so far
    lastFail,                     \* history: the last call on the network, if it failed
    lastEdge,                     \* history: the last add_edge call and what it staged
    lastFrag,                     \* history: the last fragment ingested
    lastNetAttr                   \* history: the network attribute set last, per name

builderVars ==
    <<node_id_counter, edge_id_counter, node_inventory, node_attribute_inventory,
      edge_inventory, edge_attribute_inventory, opaque_aspect_inventory,
      context_inventory, network_attribute_inventory>>

histVars == <<lastAdd, lastSet, firstId, addLog, flushed, setLog, overwritten, builds>>

\* History of the operations on edges, fragments and network attributes.
callVars == <<lastEdge, lastFrag, lastNetAttr>>

\* Python None for an int argument, and an absent dict key.
NoId == -1
Absent == "absent"
\* A node or edge dict passed as property_of: the builder stores it as it is
\* (lines 194, 222), and no dict can be the key of a dict.
UnhashablePo == -2

NodeNames == {"bob", "alice"}
\* The id argument of add_node: None, 0 (falsy, like None) or a real id.
NodeIdArgs == {NoId, 0, 1, 7}
\* represents and data_type: None (the key is then left out) or a string.
RepresentsArgs == {Absent, "rep"}
DataTypeArgs == {Absent, "string"}
Owners == {0, 1}
AttrNames == {"attrname", "other"}

\* --- Python values, by runtime shape ------------------------------------
PyInt(l) == [shape |-> "int", elems |-> <<>>, lit |-> l]
PyFloat(l) == [shape |-> "float", elems |-> <<>>, lit |-> l]
PyBool(l) == [shape |-> "bool", elems |-> <<>>, lit |-> l]
PyStr(l) == [shape |-> "str", elems |-> <<>>, lit |-> l]
PyList(e, l) == [shape |-> "list", elems |-> e, lit |-> l]
PyDict(l) == [shape |-> "dict", elems |-> <<>>, lit |-> l]
PyNone == [shape |-> "None", elems |-> <<>>, lit |-> "None"]

\* --- insertion-ordered dicts: sequences of [k, v] with distinct keys -----
DictHas(d, key) == \E i \in 1..Len(d) : d[i].k = key
DictIndex(d, key) == CHOOSE i \in 1..Len(d) : d[i].k = key
DictGet(d, key) == d[DictIndex(d, key)].v
DictPut(d, key, val) ==
    IF DictHas(d, key)
    THEN [d EXCEPT ![DictIndex(d, key)] = [k |-> key, v |-> val]]
    ELSE Append(d, [k |-> key, v |-> val])

\* --- NiceCXNetwork pieces the builder writes to --------------------------
EmptyNet ==
    [nodes |-> <<>>,
     nodeAttributes |-> [o \in Owners |-> <<>>],
     edges |-> <<>>,
     edgeAttributes |-> [o \in Owners |-> <<>>],
     networkAttributes |-> <<>>,
     opaqueAspects |-> <<>>,
     context |-> Absent,
     nodeCitations |-> <<>>,
     edgeCitations |-> <<>>,
     edgeSupports |-> <<>>,
     written |-> <<>>]

\* The network without the record of what the running get_nice_cx wrote
\* (written is history kept beside the aspects, no field of the class).
Content(net) == [net EXCEPT !.written = <<>>]

\* lastFail when the last call on the network went through.
NoFail == [op |-> "none", error |-> "none", before |-> EmptyNet, after |-> EmptyNet]

\* NiceCXNetwork.set_context: the context is stored once per network.
NetSetContext(net, c) ==
    [net EXCEPT !.context = c, !.written = Append(@, "context")]

\* NiceCXNetwork.add_network_attribute: one slot per name.
NetAddNetworkAttribute(net, a) ==
    [net EXCEPT !.networkAttributes = DictPut(net.networkAttributes, a.n, a),
                !.written = Append(@, "networkAttributes")]

\* NiceCXNetwork.add_opaque_aspect: at most one opaque aspect per name.
NetAddOpaqueAspect(net, name, recs) ==
    [net EXCEPT !.opaqueAspects = DictPut(net.opaqueAspects, name, recs),
                !.written = Append(@, "opaqueAspects")]

\* --- NiceCXBuilder.add_node ---------------------------------------------
AddNodeNoDedup(name, represents, id, data_type) ==
    LET useCounter == (id = NoId \/ id = 0)
        node_id == IF useCounter THEN node_id_counter ELSE id
        node == [id |-> node_id, n |-> name, r |-> represents,
                     d |-> data_type]
    IN /\ node_id_counter' =
              IF useCounter THEN node_id_counter + 1 ELSE node_id_counter
       /\ node_inventory' = DictPut(node_inventory, name, node)
       /\ lastAdd' = [op |-> "add_node", name |-> name, ret |-> node_id,
                       wasStaged |-> DictHas(node_inventory, name),
                       invBefore |-> node_inventory,
                       counterBefore |-> node_id_counter]
       /\ firstId' = IF firstId[name] = NoId
                     THEN [firstId EXCEPT ![name] = node_id] ELSE firstId

AddNodeCall(name, represents, id, data_type) ==
    IF DictHas(node_inventory, name)
    THEN \* lines 128-129: the staged node's id is returned
         /\ lastAdd' = [op |-> "add_node", name |-> name,
                         ret |-> DictGet(node_inventory, name).id,
                         wasStaged |-> TRUE,
                         invBefore |-> node_inventory,
                         counterBefore |-> node_id_counter]
         /\ UNCHANGED <<node_id_counter, node_inventory, firstId>>
    ELSE \* lines 131-145: "if id:" treats 0 like None
         LET useCounter == (id = NoId \/ id = 0)
             node_id == IF useCounter THEN node_id_counter ELSE id
             node == [id |-> node_id, n |-> name, r |-> represents,
                     d |-> data_type]
         IN /\ node_id_counter' =
                   IF useCounter THEN node_id_counter + 1 ELSE node_id_counter
            /\ node_inventory' = DictPut(node_inventory, name, node)
            /\ lastAdd' = [op |-> "add_node", name |-> name, ret |-> node_id,
                            wasStaged |-> FALSE,
                            invBefore |-> node_inventory,
                            counterBefore |-> node_id_counter]
            /\ firstId' = [firstId EXCEPT ![name] = node_id]

AddNode(NameS, RepresentsS, IdS, TypeS) ==
    /\ \E name \in NameS, represents \in RepresentsS, id \in IdS,
          data_type \in TypeS :
          AddNodeCall(name, represents, id, data_type)
    /\ UNCHANGED <<edge_id_counter, node_attribute_inventory, edge_inventory,
                   edge_attribute_inventory, opaque_aspect_inventory,
                   context_inventory, network_attribute_inventory, nice_cx,
                   lastSet, addLog, flushed, setLog, overwritten, builds,
                   lastFail>>
    /\ UNCHANGED callVars

\* --- NiceCXBuilder.add_node_attribute ------------------------------------
\* The type argument of add_node_attribute / set_node_attribute (None = Absent).
StagedRecord(property_of, name, value, type) ==
    [po |-> property_of, n |-> name, v |-> value, d |-> type]

AddNodeAttributeCall(property_of, name, value, type) ==
    /\ node_attribute_inventory' =
          Append(node_attribute_inventory,
                 StagedRecord(property_of, name, value, type))
    /\ addLog' = Append(addLog, [po |-> property_of, n |-> name, v |-> value])

AddNodeAttribute(PoS, NameS, ValS, TypeS) ==
    /\ Len(addLog) < MaxStaged
    /\ \E po \in PoS, name \in NameS, value \in ValS, type \in TypeS :
          AddNodeAttributeCall(po, name, value, type)
    /\ UNCHANGED <<node_id_counter, edge_id_counter, node_inventory,
                   edge_inventory, edge_attribute_inventory,
                   opaque_aspect_inventory, context_inventory,
                   network_attribute_inventory, nice_cx,
                   lastAdd, lastSet, firstId, flushed, setLog, overwritten,
                   builds, lastFail>>
    /\ UNCHANGED callVars

\* --- NiceCXBuilder.add_edge ------------------------------------------------
\* The id argument of add_edge: None or an id ("is not None": 0 is an id).
EdgeIdArgs == {NoId, 0, 1}
\* The interaction argument: None, the empty string or a name.
InteractionArgs == {Absent, "", "binds"}

\* Lines 163-177; "if interaction:" takes the empty string like None.
AddEdgeCall(source, target, interaction, id) ==
    LET edge_id == IF id # NoId THEN id ELSE edge_id_counter
        edge == [id |-> edge_id, s |-> source, t |-> target,
                 i |-> IF interaction \in {Absent, ""} THEN "interacts-with"
                       ELSE interaction]
    IN /\ edge_id_counter' =
              IF id # NoId THEN edge_id_counter ELSE edge_id_counter + 1
       /\ edge_inventory' = DictPut(edge_inventory, edge_id, edge)
       /\ lastEdge' = [op |-> "add_edge", interaction |-> interaction,
                       ret |-> edge_id, staged |-> DictGet(edge_inventory', edge_id)]

AddEdge(TargetS, InteractionS, IdS) ==
    /\ edge_id_counter < MaxEdges
    /\ \E source \in {0}, target \in TargetS,
          interaction \in InteractionS, id \in IdS :
          AddEdgeCall(source, target, interaction, id)
    /\ UNCHANGED <<node_id_counter, node_inventory, node_attribute_inventory,
                   edge_attribute_inventory, opaque_aspect_inventory,
                   context_inventory, network_attribute_inventory, nice_cx,
                   lastFail, lastFrag, lastNetAttr>>
    /\ UNCHANGED histVars

\* --- NiceCXBuilder.add_edge_attribute --------------------------------------
AddEdgeAttributeCall(property_of, name, values, type) ==
    edge_attribute_inventory' =
        Append(edge_attribute_inventory,
               StagedRecord(property_of, name, values, type))

AddEdgeAttribute(PoS, NameS, ValS, TypeS) ==
    /\ Len(edge_attribute_inventory) < MaxStaged
    /\ \E po \in PoS, name \in NameS, values \in ValS, type \in TypeS :
          AddEdgeAttributeCall(po, name, values, type)
    /\ UNCHANGED <<node_id_counter, edge_id_counter, node_inventory,
                   node_attribute_inventory, edge_inventory,
                   opaque_aspect_inventory, context_inventory,
                   network_attribute_inventory, nice_cx, lastFail>>
    /\ UNCHANGED histVars
    /\ UNCHANGED callVars

\* --- NiceCXBuilder.set_context ---------------------------------------------
\* The context argument: a dict, a list holding one dict, an empty list, None.
ContextArgs ==
    {[kind |-> "dict", items |-> <<>>, val |-> "pmid"],
     [kind |-> "list", items |-> <<"ncbi">>, val |-> Absent],
     [kind |-> "list", items |-> <<>>, val |-> Absent],
     [kind |-> "None", items |-> <<>>, val |-> Absent]}

SetContextCall(context) ==
    context_inventory' =
        IF context.kind = "dict" THEN context
        ELSE IF context.kind = "list" /\ Len(context.items) > 0
             THEN [kind |-> "dict", items |-> <<>>, val |-> context.items[1]]
        ELSE context_inventory

SetContext ==
    /\ \E context \in ContextArgs : SetContextCall(context)
    /\ UNCHANGED <<node_id_counter, edge_id_counter, node_inventory,
                   node_attribute_inventory, edge_inventory,
                   edge_attribute_inventory, opaque_aspect_inventory,
                   network_attribute_inventory, nice_cx, lastFail>>
    /\ UNCHANGED histVars
    /\ UNCHANGED callVars

\* --- NiceCXBuilder.set_name, NiceCXBuilder.add_network_attribute -----------
NetworkNames == {"net1", "net2"}
NetAttrNames == {"name", "description"}

NetworkAttribute(name, values, type) == [n |-> name, v |-> values, d |-> type]
\* lastNetAttr of a name that was never set.
NoNetAttr == NetworkAttribute("", "", Absent)

SetNameCall(network_name) ==
    LET a == NetworkAttribute("name", network_name, "string") IN
    /\ network_attribute_inventory' =
          DictPut(network_attribute_inventory, "name", a)
    /\ lastNetAttr' = [lastNetAttr EXCEPT !["name"] = a]

SetName(NameS) ==
    /\ \E network_name \in NameS : SetNameCall(network_name)
    /\ UNCHANGED <<node_id_counter, edge_id_counter, node_inventory,
                   node_attribute_inventory, edge_inventory,
                   edge_attribute_inventory, opaque_aspect_inventory,
                   context_inventory, nice_cx, lastFail, lastEdge, lastFrag>>
    /\ UNCHANGED histVars

AddNetworkAttributeCall(name, values, type) ==
    LET a == NetworkAttribute(name, values, type) IN
    /\ network_attribute_inventory' =
          DictPut(network_attribute_inventory, name, a)
    /\ lastNetAttr' = [lastNetAttr EXCEPT ![name] = a]

AddNetworkAttribute(NameS, TypeS) ==
    /\ \E name \in NameS, values \in NetworkNames, type \in TypeS :
          AddNetworkAttributeCall(name, values, type)
    /\ UNCHANGED <<node_id_counter, edge_id_counter, node_inventory,
                   node_attribute_inventory, edge_inventory,
                   edge_attribute_inventory, opaque_aspect_inventory,
                   context_inventory, nice_cx, lastFail, lastEdge, lastFrag>>
    /\ UNCHANGED histVars

\* --- NiceCXBuilder.add_opaque_aspect ---------------------------------------
OpaqueNames == {"aspectA", "aspectB"}
OpaqueLists == {<<>>, <<[properties_of |-> "network"]>>}

AddOpaqueAspectCall(oa_name, oa_list) ==
    opaque_aspect_inventory' =
        Append(opaque_aspect_inventory, [k |-> oa_name, v |-> oa_list])

AddOpaqueAspect(NameS, ListS) ==
    /\ Len(opaque_aspect_inventory) < MaxStaged
    /\ \E oa_name \in NameS, oa_list \in ListS :
          AddOpaqueAspectCall(oa_name, oa_list)
    /\ UNCHANGED <<node_id_counter, edge_id_counter, node_inventory,
                   node_attribute_inventory, edge_inventory,
                   edge_attribute_inventory, context_inventory,
                   network_attribute_inventory, nice_cx, lastFail>>
    /\ UNCHANGED histVars
    /\ UNCHANGED callVars

\* --- NiceCXBuilder: methods to add data by fragment -------------------------
\* Fragments write to self.nice_cx at once, not to the staging inventories.
FragmentOwners == {<<0>>, <<1>>, <<0, 1>>}
FragmentIds == {<<1>>, <<2>>}

\* Line 233-234: the fragment is appended to the network's attribute list.
AddNetworkAttributesFromFragment(net, fragment) ==
    [net EXCEPT !.networkAttributes =
        Append(@, [k |-> fragment.n, v |-> fragment])]

\* Lines 242-246.
AddNodeAttributeFromFragment(net, fragment) ==
    [net EXCEPT !.nodeAttributes[fragment.po] = Append(@, fragment)]

\* Lines 248-252.
AddEdgeAttributeFromFragment(net, fragment) ==
    [net EXCEPT !.edgeAttributes[fragment.po] = Append(@, fragment)]

\* "for po_id in fragment.get('po'): index[po_id] = ids".
RECURSIVE AssignEach(_, _, _)
AssignEach(index, po, ids) ==
    IF po = <<>> THEN index
    ELSE AssignEach(DictPut(index, Head(po), ids), Tail(po), ids)

\* Lines 260-262.
AddEdgeSupportsFromFragment(net, fragment) ==
    [net EXCEPT !.edgeSupports = AssignEach(@, fragment.po, fragment.supports)]

\* Lines 264-266.
AddNodeCitationsFromFragment(net, fragment) ==
    [net EXCEPT !.nodeCitations = AssignEach(@, fragment.po, fragment.citations)]

\* Lines 268-270.
AddEdgeCitationsFromFragment(net, fragment) ==
    [net EXCEPT !.edgeCitations = AssignEach(@, fragment.po, fragment.citations)]

FragmentFrame ==
    /\ UNCHANGED builderVars
    /\ UNCHANGED histVars
    /\ UNCHANGED <<lastFail, lastEdge>>

\* One network-attribute fragment of the stream.
NetworkAttributeFragment ==
    /\ Len(nice_cx.networkAttributes) < MaxNetAttrs
    /\ \E name \in NetAttrNames, values \in NetworkNames :
          LET fragment == NetworkAttribute(name, values, Absent) IN
          /\ nice_cx' = AddNetworkAttributesFromFragment(nice_cx, fragment)
          /\ lastNetAttr' = [lastNetAttr EXCEPT ![name] = fragment]
    /\ UNCHANGED lastFrag
    /\ FragmentFrame

\* One node-attribute or edge-attribute fragment of the stream.
AttributeFragment ==
    /\ lastFrag.count < MaxFragments
    /\ \E po \in Owners, value \in {PyStr("value"), PyStr("value2")},
          onEdge \in BOOLEAN :
          LET fragment == StagedRecord(po, "attrname", value, "string") IN
          /\ nice_cx' = IF onEdge
                        THEN AddEdgeAttributeFromFragment(nice_cx, fragment)
                        ELSE AddNodeAttributeFromFragment(nice_cx, fragment)
          /\ lastFrag' = [op |-> IF onEdge THEN "edgeAttributes"
                                 ELSE "nodeAttributes",
                          po |-> {po}, before |-> nice_cx,
                          count |-> lastFrag.count + 1]
    /\ UNCHANGED lastNetAttr
    /\ FragmentFrame

\* One edgeSupports fragment of the stream.
EdgeSupportsFragment ==
    /\ lastFrag.count < MaxFragments
    /\ \E po \in FragmentOwners, supports \in FragmentIds :
          /\ nice_cx' = AddEdgeSupportsFromFragment(
                            nice_cx, [po |-> po, supports |-> supports])
          /\ lastFrag' = [op |-> "edgeSupports",
                          po |-> {po[i] : i \in 1..Len(po)},
                          before |-> nice_cx, count |-> lastFrag.count + 1]
    /\ UNCHANGED lastNetAttr
    /\ FragmentFrame

\* One nodeCitations or edgeCitations fragment of the stream.
CitationsFragment ==
    /\ lastFrag.count < MaxFragments
    /\ \E po \in FragmentOwners, citations \in FragmentIds, onEdge \in BOOLEAN :
          LET fragment == [po |-> po, citations |-> citations] IN
          /\ nice_cx' = IF onEdge
                        THEN AddEdgeCitationsFromFragment(nice_cx, fragment)
                        ELSE AddNodeCitationsFromFragment(nice_cx, fragment)
          /\ lastFrag' = [op |-> IF onEdge THEN "edgeCitations"
                                 ELSE "nodeCitations",
                          po |-> {po[i] : i \in 1..Len(po)},
                          before |-> nice_cx, count |-> lastFrag.count + 1]
    /\ UNCHANGED lastNetAttr
    /\ FragmentFrame

\* --- NiceCXBuilder.get_nice_cx -------------------------------------------
\* Lines 276-280: a dict is set as the context, a list is walked.
RECURSIVE FlushContextList(_, _)
FlushContextList(net, items) ==
    IF items = <<>> THEN net
    ELSE FlushContextList(NetSetContext(net, Head(items)), Tail(items))

FlushContext(net, inv) ==
    IF inv.kind = "dict" THEN NetSetContext(net, inv.val)
    ELSE FlushContextList(net, inv.items)

RECURSIVE FlushNetworkAttributes(_, _)
FlushNetworkAttributes(net, inv) ==
    IF inv = <<>> THEN net
    ELSE FlushNetworkAttributes(NetAddNetworkAttribute(net, Head(inv).v),
                                Tail(inv))

RECURSIVE FlushNodes(_, _)
FlushNodes(net, inv) ==
    IF inv = <<>> THEN net
    ELSE FlushNodes([net EXCEPT !.nodes =
                        DictPut(net.nodes, Head(inv).v.id, Head(inv).v),
                     !.written = Append(@, "nodes")],
                    Tail(inv))

\* Lines 301 and 318: dict.get raises TypeError on a key that is a dict.
FlushFails(inv) == \E i \in 1..Len(inv) : inv[i].po = UnhashablePo

RECURSIVE FlushNodeAttributesReplace(_, _)
FlushNodeAttributesReplace(net, inv) ==
    IF inv = <<>> \/ Head(inv).po = UnhashablePo THEN net
    ELSE FlushNodeAttributesReplace(
             [net EXCEPT !.nodeAttributes[Head(inv).po] = <<Head(inv)>>,
                         !.written = Append(@, "nodeAttributes")],
             Tail(inv))

\* Lines 298-304; the loop ends at the first record whose owner raises.
RECURSIVE FlushNodeAttributes(_, _)
FlushNodeAttributes(net, inv) ==
    IF inv = <<>> \/ Head(inv).po = UnhashablePo THEN net
    ELSE FlushNodeAttributes(
             [net EXCEPT !.nodeAttributes[Head(inv).po] =
                             Append(net.nodeAttributes[Head(inv).po], Head(inv)),
                         !.written = Append(@, "nodeAttributes")],
             Tail(inv))

RECURSIVE FlushEdges(_, _)
FlushEdges(net, inv) ==
    IF inv = <<>> THEN net
    ELSE FlushEdges([net EXCEPT !.edges =
                        DictPut(net.edges, Head(inv).k, Head(inv).v),
                     !.written = Append(@, "edges")],
                    Tail(inv))

\* Lines 315-321; the loop ends at the first record whose owner raises.
RECURSIVE FlushEdgeAttributes(_, _)
FlushEdgeAttributes(net, inv) ==
    IF inv = <<>> \/ Head(inv).po = UnhashablePo THEN net
    ELSE FlushEdgeAttributes(
             [net EXCEPT !.edgeAttributes[Head(inv).po] =
                             Append(net.edgeAttributes[Head(inv).po], Head(inv)),
                         !.written = Append(@, "edgeAttributes")],
             Tail(inv))

RECURSIVE FlushOpaqueAspects(_, _)
FlushOpaqueAspects(net, inv) ==
    IF inv = <<>> THEN net
    ELSE FlushOpaqueAspects(
             NetAddOpaqueAspect(net, Head(inv).k, Head(inv).v), Tail(inv))

\* The exception that ends get_nice_cx, or "none".
BuildError ==
    IF FlushFails(node_attribute_inventory)
          \/ FlushFails(edge_attribute_inventory)
    THEN "TypeError: unhashable type: 'dict'"
    ELSE "none"

BuildNiceCxEdgesFirst(net) ==
    LET n0 == Content(net)
        n1 == FlushContext(n0, context_inventory)
        n2 == FlushNetworkAttributes(n1, network_attribute_inventory)
        n3 == FlushNodes(n2, node_inventory)
        n4 == FlushEdges(n3, edge_inventory)
        n5 == FlushNodeAttributes(n4, node_attribute_inventory)
        n6 == FlushEdgeAttributes(n5, edge_attribute_inventory)
    IN IF FlushFails(node_attribute_inventory) THEN n5
       ELSE IF FlushFails(edge_attribute_inventory) THEN n6
       ELSE FlushOpaqueAspects(n6, opaque_aspect_inventory)

\* Lines 272-330, in the order of the code; an exception ends the call and
\* leaves what was written so far in self.nice_cx.
BuildNiceCx(net) ==
    LET n0 == Content(net)
        n1 == FlushContext(n0, context_inventory)
        n2 == FlushNetworkAttributes(n1, network_attribute_inventory)
        n3 == FlushNodes(n2, node_inventory)
        n4 == FlushNodeAttributes(n3, node_attribute_inventory)
        n5 == FlushEdges(n4, edge_inventory)
        n6 == FlushEdgeAttributes(n5, edge_attribute_inventory)
    IN IF FlushFails(node_attribute_inventory) THEN n4
       ELSE IF FlushFails(edge_attribute_inventory) THEN n6
       ELSE FlushOpaqueAspects(n6, opaque_aspect_inventory)

GetNiceCx ==
    /\ builds < MaxBuilds
    /\ nice_cx' = BuildNiceCx(nice_cx)
    /\ builds' = builds + 1
    /\ flushed' = IF BuildError = "none" THEN Len(addLog) ELSE flushed
    /\ lastFail' = IF BuildError = "none" THEN NoFail
                   ELSE [op |-> "get_nice_cx", error |-> BuildError,
                         before |-> nice_cx, after |-> nice_cx']
    /\ UNCHANGED builderVars
    /\ UNCHANGED <<lastAdd, lastSet, firstId, addLog, setLog, overwritten>>
    /\ UNCHANGED callVars

\* =========================================================================
\* Part 3.  NiceCXNetwork.set_node_attribute (the attribute subsystem)
\* =========================================================================

\* property_of arguments: None, a node id, or a node dict with or without @id.
PoNone == [kind |-> "None", id |-> NoId]
PoInt(i) == [kind |-> "int", id |-> i]
PoDict(i) == [kind |-> "dict", id |-> i]
PoArgs == {PoNone, PoDict(NoId)} \cup {PoInt(o) : o \in Owners}
              \cup {PoDict(o) : o \in Owners}
NoName == "None"

\* Datatype of one scalar shape; "" when the shape is no scalar.
ScalarDatatype(shape) ==
    CASE shape = "int" -> "integer"
      [] shape = "float" -> "double"
      [] shape = "bool" -> "boolean"
      [] shape = "str" -> "string"
      [] OTHER -> ""

Homogeneous(elems) ==
    /\ elems # <<>>
    /\ \A i \in 1..Len(elems) : elems[i] = elems[1]
    /\ ScalarDatatype(elems[1]) # ""

InferDatatypeBoolAsInt(value) ==
    CASE value.shape \in {"int", "bool"} -> "integer"
      [] value.shape = "float" -> "double"
      [] value.shape = "list" /\ Homogeneous(value.elems) ->
             "list_of_" \o ScalarDatatype(value.elems[1])
      [] OTHER -> "string"

\* Datatype inference over the value's runtime shape.
InferDatatype(value) ==
    CASE value.shape = "int" -> "integer"
      [] value.shape = "float" -> "double"
      [] value.shape = "bool" -> "boolean"
      [] value.shape = "list" /\ Homogeneous(value.elems) ->
             "list_of_" \o ScalarDatatype(value.elems[1])
      [] OTHER -> "string"

SetAttributeErrorNoNameCheck(po, name, value) ==
    IF po.kind = "None" THEN "NDExError: Node attribute requires property_of"
    ELSE IF po.kind = "dict" /\ po.id = NoId
         THEN "NDExError: No id found in Node"
    ELSE "none"

\* The argument checks, in the order of the tests; "none" when they pass.
SetAttributeError(po, name, value) ==
    IF po.kind = "None" THEN "NDExError: Node attribute requires property_of"
    ELSE IF name = NoName \/ value = PyNone
         THEN "NDExError: Node attribute requires the name and values property"
    ELSE IF po.kind = "dict" /\ po.id = NoId
         THEN "NDExError: No id found in Node"
    ELSE "none"

AttributeRecord(po, name, value, type) ==
    [po |-> po.id, n |-> name, v |-> value,
     d |-> IF type = Absent THEN InferDatatype(value) ELSE type]

StoreAttributeSameNameOnly(old, rec, overwrite) ==
    IF overwrite
    THEN Append(SelectSeq(old, LAMBDA a : a.n # rec.n), rec)
    ELSE Append(old, rec)

\* Multiplicity: append, or with overwrite replace the owner's whole list.
StoreAttribute(old, rec, overwrite) ==
    IF overwrite THEN <<rec>> ELSE Append(old, rec)

SetNodeAttributeCall(po, name, value, type, overwrite) ==
    LET err == SetAttributeError(po, name, value) IN
    /\ lastSet' = [op |-> "set_node_attribute", po |-> po, n |-> name,
                   v |-> value, type |-> type, overwrite |-> overwrite,
                   error |-> err,
                   attrsBefore |-> nice_cx.nodeAttributes]
    /\ IF err # "none"
       THEN UNCHANGED <<nice_cx, setLog, overwritten>>
       ELSE LET rec == AttributeRecord(po, name, value, type) IN
            /\ nice_cx' =
                  [nice_cx EXCEPT !.nodeAttributes[po.id] =
                      StoreAttribute(@, rec, overwrite)]
            /\ setLog' =
                  Append(setLog, [po |-> po.id, n |-> name, v |-> value])
            /\ overwritten' =
                  IF overwrite THEN overwritten \cup {po.id} ELSE overwritten
    /\ lastFail' = IF err = "none" THEN NoFail
                   ELSE [op |-> "set_node_attribute", error |-> err,
                         before |-> nice_cx, after |-> nice_cx']

SetNodeAttribute(PoS, NameS, ValS, TypeS, OverwriteS) ==
    /\ Len(setLog) < MaxSets
    /\ \E po \in PoS, name \in NameS, value \in ValS, type \in TypeS,
          overwrite \in OverwriteS :
          SetNodeAttributeCall(po, name, value, type, overwrite)
    /\ UNCHANGED builderVars
    /\ UNCHANGED <<lastAdd, firstId, addLog, flushed, builds>>
    /\ UNCHANGED callVars

\* =========================================================================
\* Part 4.  NiceCXNetwork.apply_style_from_network (style reconciliation)
\* =========================================================================

\* ------------------------------------------------------------------ bounds
\* Records in the styling aspect of a source network.
MaxSourceRecs == 4
\* Records in the styling aspect a target holds before any transplant.
MaxTargetRecs == 2
\* Successful transplants onto one target.
MaxApplies == 2

VARIABLES
    lastStyle,   \* history: the last apply_style_from_network call
    applies      \* history: successful transplants so far

styleVars == <<lastStyle, applies>>

\* The two historical names of the visual-styling opaque aspect.
LegacyStyle == "visualProperties"
CyStyle == "cyVisualProperties"
StyleNames == {LegacyStyle, CyStyle}

\* properties_of of a styling record: the three defaults, then the
\* per-element overrides.
DefaultCategories == <<"network", "nodes:default", "edges:default">>
StyleCategories == {"network", "nodes:default", "edges:default", "nodes", "edges"}

\* Position of a category in the order CX writers emit styling records.
CategoryRank(c) ==
    CASE c = "network" -> 1
      [] c = "nodes:default" -> 2
      [] c = "edges:default" -> 3
      [] c = "nodes" -> 4
      [] c = "edges" -> 5

\* Styling aspects of at most n records, listed in that order (the order of
\* the records does not enter the normalisation).
StyleRecs(n) ==
    {s \in SeqsUpTo({[properties_of |-> c] : c \in StyleCategories}, n) :
        \A i \in 1..(Len(s) - 1) :
            CategoryRank(s[i].properties_of) <= CategoryRank(s[i + 1].properties_of)}

\* Networks handed to apply_style_from_network.
SourceNone == [kind |-> "None", opaqueAspects |-> <<>>]
SourceStr == [kind |-> "str", opaqueAspects |-> <<>>]
SourceNet(oa) == [kind |-> "net", opaqueAspects |-> oa]
SourceArgs ==
    {SourceNone, SourceStr, SourceNet(<<>>)}
    \cup {SourceNet(<<[k |-> name, v |-> recs]>>) :
             name \in StyleNames, recs \in StyleRecs(MaxSourceRecs)}

\* Styling aspects a target may hold at first.
TargetAspects ==
    {<<>>} \cup {<<[k |-> name, v |-> recs]>> :
                    name \in StyleNames, recs \in StyleRecs(MaxTargetRecs)}

DictRemove(d, key) == SelectSeq(d, LAMBDA e : e.k # key)

HasStyle(oa) == DictHas(oa, CyStyle) \/ DictHas(oa, LegacyStyle)

\* The styling aspect of a network, whichever schema it uses.
GetVisualAspect(oa) ==
    IF DictHas(oa, CyStyle) THEN DictGet(oa, CyStyle)
    ELSE DictGet(oa, LegacyStyle)

StyleSchema(oa) ==
    IF DictHas(oa, CyStyle) THEN "new"
    ELSE IF DictHas(oa, LegacyStyle) THEN "legacy" ELSE "none"

StyleLen(oa) == IF HasStyle(oa) THEN Len(GetVisualAspect(oa)) ELSE 0

\* One canonical bundle: what the source says about one default category.
CategoryBundle(recs, c) ==
    [properties_of |-> c,
     merged |-> Len(SelectSeq(recs, LAMBDA r : r.properties_of = c))]

NormalizeKeepOverrides(recs) ==
    [i \in 1..Len(recs) |->
        [properties_of |-> recs[i].properties_of, merged |-> 1]]

\* Normalisation: the three default bundles; per-element overrides are dropped.
NormalizeStyle(recs) ==
    [i \in 1..Len(DefaultCategories) |-> CategoryBundle(recs, DefaultCategories[i])]

ApplyStyleErrorNoTypeCheck(source) ==
    IF source.kind = "None" THEN "TypeError: Object passed in is None"
    ELSE IF ~HasStyle(source.opaqueAspects)
         THEN "NDExError: No visual style found in network"
    ELSE "none"

\* The argument checks, in the order of the error list; "none" when they pass.
ApplyStyleError(source) ==
    IF source.kind = "None" THEN "TypeError: Object passed in is None"
    ELSE IF source.kind # "net"
         THEN "TypeError: Object passed in is not NiceCXNetwork"
    ELSE IF ~HasStyle(source.opaqueAspects)
         THEN "NDExError: No visual style found in network"
    ELSE "none"

\* The target's opaque aspects after the transplant: the legacy aspect is
\* dropped and the styling aspect replaced wholesale.
TransplantStyle(oa, recs) ==
    DictPut(DictRemove(oa, LegacyStyle), CyStyle, NormalizeStyle(recs))

ApplyStyleFromNetworkCall(source) ==
    LET err == ApplyStyleError(source) IN
    /\ lastStyle' = [op |-> "apply_style_from_network",
                     srcKind |-> source.kind,
                     srcSchema |-> StyleSchema(source.opaqueAspects),
                     srcLen |-> StyleLen(source.opaqueAspects),
                     tgtSchema |-> StyleSchema(nice_cx.opaqueAspects),
                     tgtLen |-> StyleLen(nice_cx.opaqueAspects),
                     error |-> err]
    /\ IF err # "none"
       THEN UNCHANGED <<nice_cx, applies>>
       ELSE /\ nice_cx' =
                  [nice_cx EXCEPT !.opaqueAspects =
                      TransplantStyle(@, GetVisualAspect(source.opaqueAspects))]
            /\ applies' = applies + 1
    /\ lastFail' = IF err = "none" THEN NoFail
                   ELSE [op |-> "apply_style_from_network", error |-> err,
                         before |-> nice_cx, after |-> nice_cx']

ApplyStyleFromNetwork(SourceS) ==
    /\ applies < MaxApplies
    /\ \E source \in SourceS : ApplyStyleFromNetworkCall(source)
    /\ UNCHANGED builderVars
    /\ UNCHANGED histVars
    /\ UNCHANGED callVars

\* =========================================================================
\* Part 5.  ndex2.client.Ndex2: the constructor, the request methods, the
\* operations built on them, and DecimalEncoder
\* =========================================================================

\* ------------------------------------------------------------------ bounds
\* Requests one client sends through its request methods.
MaxSent == 3
\* Largest retry argument given to a delete operation.
MaxRetry == 3
\* Longest list handed to json.dumps with the DecimalEncoder.
MaxEncLen == 2
\* Nested calls the interpreter allows before it raises RecursionError
\* (sys.getrecursionlimit(), scaled down).
RecursionLimit == 3

\* --- the constructor ---------------------------------------------------------
\* A string is the sequence of its pieces, so that + is concatenation.
\* Line 24: userAgent = 'NDEx2-Python/' + __version__.
LibAgent == <<"NDEx2-Python/", "__version__">>

\* The user_agent argument: None, the empty string, or a name.
NoneAgent == [kind |-> "None", text |-> <<>>]
StrAgent(t) == [kind |-> "str", text |-> t]
UserAgentArgs == {NoneAgent, StrAgent(<<>>), StrAgent(<<"jeez">>)}

\* Lines 68-73: what the constructor keeps in self.user_agent.
InitUserAgent(arg) ==
    IF arg.kind = "None" THEN <<>>
    ELSE IF Len(arg.text) > 0 THEN <<" ">> \o arg.text
    ELSE arg.text

\* A version string is the sequence of its dot-separated numbers; the
\* constructor's default self.version = 1.3 (line 64) is a float.
StrVersion(parts) == [kind |-> "str", parts |-> parts]
FloatVersion == [kind |-> "float", parts |-> <<1, 3>>]

\* pv.startswith('2.')
StartsWith2(parts) == Len(parts) >= 2 /\ parts[1] = 2

\* What the constructor learns: the host is localhost (no status request),
\* the status request fails with an HTTP error, its answer has no
\* properties, properties without a ServerVersion, or a ServerVersion.
Localhost == [kind |-> "localhost", pv |-> <<>>]
StatusHTTPError == [kind |-> "HTTPError", pv |-> <<>>]
NoProperties == [kind |-> "noProperties", pv |-> <<>>]
NoServerVersion == [kind |-> "noServerVersion", pv |-> <<>>]
ServerVersion(pv) == [kind |-> "ServerVersion", pv |-> pv]
ServerVersions == {<<2, 0>>, <<2, 1>>, <<2, 4, 0>>, <<1, 3>>}
StatusReports ==
    {Localhost, StatusHTTPError, NoProperties, NoServerVersion}
    \cup {ServerVersion(pv) : pv \in ServerVersions}

\* Lines 101-102: the constructor raises on a ServerVersion that is no 2.x.
ConstructError(report) ==
    IF report.kind = "ServerVersion" /\ ~StartsWith2(report.pv)
    THEN "Exception: This release only supports NDEx 2.x server."
    ELSE "none"

\* Lines 64 and 83-124: self.version after a construction that succeeded.
ConstructVersion(report) ==
    IF report.kind = "localhost" THEN FloatVersion
    ELSE IF report.kind = "ServerVersion" THEN StrVersion(report.pv)
    ELSE StrVersion(<<1, 3>>)

\* self.version == "2.0"
IsVersion20 == version = StrVersion(<<2, 0>>)

\* --- headers ------------------------------------------------------------------
HeaderNames ==
    {"User-Agent", "Accept-Encoding", "Accept", "Connection", "Content-Type",
     "Cache-Control"}

\* A header dict gives every name its value, or <<>> when the key is absent.
NoHeaders == [n \in HeaderNames |-> <<>>]

\* Line 128: the headers of a new requests session.
DefaultHeaders ==
    [n \in HeaderNames |->
        CASE n = "User-Agent" -> <<"python-requests/", "version">>
          [] n = "Accept-Encoding" -> <<"gzip, deflate">>
          [] n = "Accept" -> <<"*/*">>
          [] n = "Connection" -> <<"keep-alive">>
          [] OTHER -> <<>>]

\* headers[k] = v for every k of upd.
SetHeaders(h, upd) ==
    [n \in HeaderNames |-> IF n \in DOMAIN upd THEN upd[n] ELSE h[n]]

\* What requests puts on the wire: the headers given with the request over
\* the persistent ones.
MergeHeaders(base, given) ==
    [n \in HeaderNames |-> IF given[n] # <<>> THEN given[n] ELSE base[n]]

\* Lines 164-169.
GetUserAgentNoSuffix == LibAgent

GetUserAgent == LibAgent \o user_agent

Senders ==
    {"get", "get_stream", "post", "post_stream", "put", "delete",
     "put_multipart", "post_multipart"}

\* "headers = self.s.headers": the method writes into the session's own dict.
UsesSessionHeaders(sender) ==
    sender \in {"get", "get_stream", "post_stream", "put", "delete"}

\* self.s.<method>(...) as opposed to requests.<method>(...).
UsesSession(sender) == sender \notin {"put_multipart", "post_multipart"}

\* The entries each request method writes into its headers.
OwnHeaders(sender) ==
    CASE sender = "put" ->
            ("Content-Type" :> <<"application/json;charset=UTF-8">>)
            @@ ("Accept" :> <<"application/json">>)
            @@ ("User-Agent" :> GetUserAgent)
      [] sender = "post" ->
            ("Content-Type" :> <<"application/json">>)
            @@ ("Accept" :> <<"application/json,text/plain">>)
            @@ ("Cache-Control" :> <<"no-cache">>)
            @@ ("User-Agent" :> GetUserAgent)
      [] sender = "delete" -> ("User-Agent" :> LibAgent \o user_agent)
      [] sender \in {"get", "get_stream"} -> ("User-Agent" :> GetUserAgent)
      [] sender = "post_stream" ->
            ("Content-Type" :> <<"application/json">>)
            @@ ("Accept" :> <<"application/json">>)
            @@ ("User-Agent" :> GetUserAgent)
            @@ ("Connection" :> <<"close">>)
      [] sender = "put_multipart" ->
            ("Content-Type" :> <<"multipart/form-data">>)
            @@ ("Accept" :> <<"application/json">>)
            @@ ("User-Agent" :> GetUserAgent)
            @@ ("Connection" :> <<"close">>)
      [] sender = "post_multipart" ->
            ("Content-Type" :> <<"multipart/form-data">>)
            @@ ("User-Agent" :> GetUserAgent)
            @@ ("Connection" :> <<"close">>)

\* The headers object the method hands to the request.
RequestHeaders(sender, h) ==
    SetHeaders(IF UsesSessionHeaders(sender) THEN h ELSE NoHeaders,
               OwnHeaders(sender))

\* self.s.headers once the method has run.
SessionAfter(sender, h) ==
    IF UsesSessionHeaders(sender) THEN RequestHeaders(sender, h) ELSE h

\* The headers of the request as it leaves.
WireHeaders(sender, h) ==
    MergeHeaders(IF UsesSession(sender) THEN SessionAfter(sender, h)
                 ELSE DefaultHeaders,
                 RequestHeaders(sender, h))

NoReq == [sender |-> "none", headers |-> NoHeaders, body |-> "none"]
NoCall == [op |-> "none", outcome |-> "none", sent |-> FALSE, body |-> "none"]

\* One request method sends one request.
Send(sender, body) ==
    /\ s_headers' = SessionAfter(sender, s_headers)
    /\ lastReq' = [sender |-> sender, headers |-> WireHeaders(sender, s_headers),
                   body |-> body]
    /\ sent' = sent + 1

\* A caller uses a request method directly (lines 206-315).
SendRequest ==
    /\ sent < MaxSent
    /\ \E sender \in Senders : Send(sender, "json")
    /\ UNCHANGED <<ua_arg, user_agent, reported, version, lastCall, deleting>>
    /\ UNCHANGED <<uploadVars, encVars>>

\* --- visibility and neighbourhood query ------------------------------------------
\* The operation ends before any request.
Fails(op, error) ==
    /\ lastCall' = [op |-> op, outcome |-> error, sent |-> FALSE, body |-> "none"]
    /\ UNCHANGED <<s_headers, lastReq, sent>>

\* The operation sends its request; the server accepts it or not.
Sends(op, sender, body) ==
    /\ Send(sender, body)
    /\ \E answer \in {"ok", "HTTPError"} :
          lastCall' = [op |-> op, outcome |-> answer, sent |-> TRUE, body |-> body]

\* Lines 1195-1203, called with a dict.
SetNetworkSystemProperties(op, body) ==
    IF RequireAuth # "none" THEN Fails(op, RequireAuth)
    ELSE Sends(op, "put", body)

\* Lines 1239-1255, called with a dict that holds 'visibility'.
UpdateNetworkProfile(op, body) ==
    IF RequireAuth # "none" THEN Fails(op, RequireAuth)
    ELSE IF version.kind # "str" THEN Fails(op, "AttributeError")
    ELSE IF StartsWith2(version.parts)
    THEN Fails(op, "Exception: Ndex 2.x doesn't support setting visibility by this function.")
    ELSE Sends(op, IF IsVersion20 THEN "put" ELSE "post", body)

\* Lines 879-883 and 934-938.
MakeNetworkVisible(op, body) ==
    IF IsVersion20 THEN SetNetworkSystemProperties(op, body)
    ELSE UpdateNetworkProfile(op, body)

MakeNetworkPublic ==
    /\ sent < MaxSent
    /\ MakeNetworkVisible("make_network_public", "visibility=PUBLIC")
    /\ UNCHANGED <<ua_arg, user_agent, reported, version, deleting>>
    /\ UNCHANGED <<uploadVars, encVars>>

MakeNetworkPrivate ==
    /\ sent < MaxSent
    /\ MakeNetworkVisible("make_network_private", "visibility=PRIVATE")
    /\ UNCHANGED <<ua_arg, user_agent, reported, version, deleting>>
    /\ UNCHANGED <<uploadVars, encVars>>

NotSupported == "Exception: get_neighborhood is not supported for versions prior to 2.0"

\* Lines 638-654, after get_neighborhood_as_cx_stream (585-595) has posted
\* the query: the answer is a JSON dict, a JSON list, or an HTTP error.
GetNeighborhoodResult(answer) ==
    IF answer = "HTTPError" THEN "HTTPError"
    ELSE IF IsVersion20
    THEN IF answer = "dict" THEN "returned data" ELSE "returned cx"
    ELSE NotSupported

GetNeighborhood ==
    /\ sent < MaxSent
    /\ Send("post_stream", "query")
    /\ \E answer \in {"dict", "list", "HTTPError"} :
          lastCall' = [op |-> "get_neighborhood",
                       outcome |-> GetNeighborhoodResult(answer),
                       sent |-> TRUE, body |-> "query"]
    /\ UNCHANGED <<ua_arg, user_agent, reported, version, deleting>>
    /\ UNCHANGED <<uploadVars, encVars>>

\* --- delete with retry --------------------------------------------------------
DeleteOps == {"delete_network", "delete_networks_from_networkset"}

\* How one DELETE can end: accepted; refused with an errorCode that starts
\* with NDEx_Concurrent_Modification; refused with another errorCode; refused
\* with a JSON body that has no errorCode; no answer at all (timeout,
\* connection error).
DeleteAnswers == {"ok", "conflict", "other_error", "no_errorCode", "no_response"}

\* What self.delete raises for the answer.
Raised(answer) ==
    CASE answer = "ok" -> "none"
      [] answer = "no_response" -> "ConnectionError"
      [] OTHER -> "HTTPError"

\* Lines 1010-1017 and 1726-1733: the except block.  inst.response is None
\* when there was no answer, and d.get('errorCode') is None when the body
\* has no errorCode; both are then dereferenced.
HandlerOutcome(answer) ==
    CASE answer = "no_response" -> "AttributeError"
      [] answer = "no_errorCode" -> "AttributeError"
      [] answer = "conflict" -> "retry"
      [] OTHER -> Raised(answer)

Locked == "Exception: Network is locked after retry."

\* "while count < retry"
LoopGuardOffByOne(count, retry) == count <= retry

LoopGuard(count, retry) == count < retry

NoDelete ==
    [op |-> "none", retry |-> 0, count |-> 0, pc |-> "idle", log |-> <<>>,
     error |-> "none"]

\* The call up to its loop: delete_network checks the credentials (line
\* 1004), delete_networks_from_networkset writes three headers (1717-1720).
DeleteStart ==
    /\ deleting.pc = "idle"
    /\ \E op \in DeleteOps, retry \in 0..MaxRetry :
          IF op = "delete_network" /\ RequireAuth # "none"
          THEN /\ deleting' = [op |-> op, retry |-> retry, count |-> 0,
                               pc |-> "raised", log |-> <<>>,
                               error |-> RequireAuth]
               /\ UNCHANGED s_headers
          ELSE /\ deleting' = [op |-> op, retry |-> retry, count |-> 0,
                               pc |-> "loop", log |-> <<>>, error |-> "none"]
               /\ s_headers' =
                     IF op = "delete_networks_from_networkset"
                     THEN SetHeaders(s_headers,
                            ("Content-Type" :> <<"application/json;charset=UTF-8">>)
                            @@ ("Accept" :> <<"application/json">>)
                            @@ ("User-Agent" :> LibAgent \o user_agent))
                     ELSE s_headers
    /\ UNCHANGED <<ua_arg, user_agent, reported, version, sent, lastReq, lastCall>>
    /\ UNCHANGED <<uploadVars, encVars>>

\* One pass of the loop, or the raise that follows it (lines 1007-1018 and
\* 1723-1734).
DeleteAttempt ==
    /\ deleting.pc = "loop"
    /\ IF LoopGuard(deleting.count, deleting.retry)
       THEN \E answer \in DeleteAnswers :
               LET out == HandlerOutcome(answer) IN
               /\ Send("delete", "none")
               /\ deleting' =
                     [deleting EXCEPT
                         !.log = Append(@, answer),
                         !.count = IF out = "retry" THEN @ + 1 ELSE @,
                         !.pc = IF answer = "ok" THEN "returned"
                                ELSE IF out = "retry" THEN "loop" ELSE "raised",
                         !.error = IF answer = "ok" \/ out = "retry" THEN "none"
                                   ELSE out]
       ELSE /\ deleting' = [deleting EXCEPT !.pc = "raised", !.error = Locked]
            /\ UNCHANGED <<s_headers, lastReq, sent>>
    /\ UNCHANGED <<ua_arg, user_agent, reported, version, lastCall>>
    /\ UNCHANGED <<uploadVars, encVars>>

\* --- DecimalEncoder -------------------------------------------------------------
\* Values by type; bytes are ASCII or not.
EncValue(type) == [type |-> type]
EncValues ==
    {EncValue(t) : t \in {"str", "int", "Decimal", "numpy.integer",
                          "bytes", "bytes-nonascii", "set"}}

\* The types json writes without asking default.
JsonTypes == {"str", "int", "float"}

EncResult(status, json, reentries) ==
    [status |-> status, json |-> json, reentries |-> reentries]

RECURSIVE EncodeValue(_, _, _)
\* JSONEncoder.encode(o) entered at call depth d: a value of a JSON type is
\* written, any other is handed to self.default and what that returns is
\* written.  Lines 1763-1771 are the default: its last line calls encode on
\* the value it was given.  n counts these calls of encode from default.
EncodeValue(o, d, n) ==
    IF d > RecursionLimit THEN EncResult("RecursionError", "none", n)
    ELSE IF o.type \in JsonTypes THEN EncResult("ok", o.type, n)
    ELSE IF o.type = "Decimal" THEN EncResult("ok", "float", n)
    ELSE IF o.type = "numpy.integer" THEN EncResult("ok", "int", n)
    ELSE IF o.type = "bytes" THEN EncResult("ok", "str", n)
    ELSE IF o.type = "bytes-nonascii" THEN EncResult("UnicodeDecodeError", "none", n)
    ELSE LET r == EncodeValue(o, d + 2, n + 1) IN
         IF r.status = "ok" THEN EncResult("ok", "str", r.reentries) ELSE r

RECURSIVE EncodeItems(_)
\* json.dumps of a list: the elements in order, up to the first that fails.
EncodeItems(items) ==
    IF items = <<>> THEN EncResult("ok", <<>>, 0)
    ELSE LET h == EncodeValue(Head(items), 1, 0) IN
         IF h.status # "ok" THEN EncResult(h.status, <<>>, h.reentries)
         ELSE LET t == EncodeItems(Tail(items)) IN
              IF t.status # "ok" THEN t
              ELSE EncResult("ok", <<h.json>> \o t.json, 0)

NoEnc == [done |-> FALSE, status |-> "none", json |-> <<>>, reentries |-> 0]

\* json.dumps(encIn, cls=DecimalEncoder), as line 379 calls it.
EncodeCall ==
    /\ ~encOut.done
    /\ LET r == EncodeItems(encIn) IN
       encOut' = [done |-> TRUE, status |-> r.status, json |-> r.json,
                  reentries |-> r.reentries]
    /\ UNCHANGED <<encIn, uploadVars, httpVars>>

\* --- construction ----------------------------------------------------------------
\* Lines 63-131: the constructor, given a user_agent argument of UaS, against
\* a server that reports one of ReportS; a construction that raises leaves
\* no client.
InitHttp(UaS, ReportS) ==
    /\ ua_arg \in UaS
    /\ user_agent = InitUserAgent(ua_arg)
    /\ reported \in {r \in ReportS : ConstructError(r) = "none"}
    /\ version = ConstructVersion(reported)
    /\ s_headers = DefaultHeaders
    /\ sent = 0
    /\ lastReq = NoReq
    /\ lastCall = NoCall
    /\ deleting = NoDelete

\* Nothing was encoded yet.
IdleEncoder ==
    /\ encIn = <<>>
    /\ encOut = NoEnc

\* A client of a 2.0 server that has sent nothing.
IdleHttp ==
    /\ InitHttp({StrAgent(<<>>)}, {ServerVersion(<<2, 0>>)})
    /\ IdleEncoder

\* =========================================================================
\* Initial states and specifications
\* =========================================================================

NoAdd ==
    [op |-> "none", name |-> "", ret |-> NoId, wasStaged |-> FALSE,
     invBefore |-> <<>>, counterBefore |-> 0]
NoSet ==
    [op |-> "none", po |-> PoNone, n |-> NoName, v |-> PyNone,
     type |-> Absent, overwrite |-> FALSE, error |-> "none",
     attrsBefore |-> EmptyNet.nodeAttributes]
NoEdgeCall ==
    [op |-> "none", interaction |-> Absent, ret |-> NoId,
     staged |-> [id |-> NoId, s |-> NoId, t |-> NoId, i |-> Absent]]
NoFrag == [op |-> "none", po |-> {}, before |-> EmptyNet, count |-> 0]
NoStyleCall ==
    [op |-> "none", srcKind |-> "None", srcSchema |-> "none", srcLen |-> 0,
     tgtSchema |-> "none", tgtLen |-> 0, error |-> "none"]

\* NiceCXBuilder.__init__, with its fresh NiceCXNetwork.
InitBuilder ==
    /\ node_id_counter = 0
    /\ edge_id_counter = 0
    /\ node_inventory = <<>>
    /\ node_attribute_inventory = <<>>
    /\ edge_inventory = <<>>
    /\ edge_attribute_inventory = <<>>
    /\ opaque_aspect_inventory = <<>>
    /\ context_inventory = [kind |-> "list", items |-> <<>>, val |-> Absent]
    /\ network_attribute_inventory = <<>>
    /\ lastAdd = NoAdd
    /\ lastSet = NoSet
    /\ firstId = [n \in NodeNames |-> NoId]
    /\ addLog = <<>>
    /\ flushed = 0
    /\ setLog = <<>>
    /\ overwritten = {}
    /\ builds = 0
    /\ lastStyle = NoStyleCall
    /\ applies = 0
    /\ lastFail = NoFail
    /\ lastEdge = NoEdgeCall
    /\ lastFrag = NoFrag
    /\ lastNetAttr = [n \in NetAttrNames |-> NoNetAttr]

\* Lines 128-131: credentials go into the session only if both are given.
InitSession ==
    /\ creds \in [username : BOOLEAN, password : BOOLEAN]
    /\ auth = (creds.username /\ creds.password)
    /\ requests = 0
    /\ lastOp = NoOp

InitClient ==
    /\ cx \in CxArgs
    /\ InitSession
    /\ stream = NoStream
    /\ outcome = "idle"
    /\ posted = 0
    /\ calls = 0
    /\ cxBefore = cx
    /\ cxFirst = cx

\* A client that has made no call yet and holds no list.
IdleClient ==
    /\ cx = [kind |-> "None", items |-> <<>>]
    /\ auth = FALSE
    /\ creds = [username |-> FALSE, password |-> FALSE]
    /\ requests = 0
    /\ lastOp = NoOp
    /\ stream = NoStream
    /\ outcome = "idle"
    /\ posted = 0
    /\ calls = 0
    /\ cxBefore = cx
    /\ cxFirst = cx

\* A client with one cx list in hand, beside a fresh builder.
Init ==
    /\ InitClient
    /\ IdleHttp
    /\ InitBuilder
    /\ nice_cx = EmptyNet

\* A fresh builder and its empty network.
InitNet ==
    /\ IdleClient
    /\ IdleHttp
    /\ InitBuilder
    /\ nice_cx = EmptyNet

\* A network that was loaded with some styling aspect.
InitStyle ==
    /\ IdleClient
    /\ IdleHttp
    /\ InitBuilder
    /\ \E oa \in TargetAspects : nice_cx = [EmptyNet EXCEPT !.opaqueAspects = oa]

netVars == <<builderVars, nice_cx, histVars, lastFail, callVars, styleVars>>

vars == <<clientVars, netVars>>

\* --- the upload path ------------------------------------------------------
NextClient ==
    \/ SaveNewNetwork /\ UNCHANGED netVars

Spec == Init /\ [][NextClient]_vars

\* --- the operations that need credentials -----------------------------------
\* A client with no list in hand, constructed with or without credentials.
InitAuth ==
    /\ cx = [kind |-> "None", items |-> <<>>]
    /\ InitSession
    /\ stream = NoStream
    /\ outcome = "idle"
    /\ posted = 0
    /\ calls = 0
    /\ cxBefore = cx
    /\ cxFirst = cx
    /\ IdleHttp
    /\ InitBuilder
    /\ nice_cx = EmptyNet

NextAuth ==
    \/ ClientCall /\ UNCHANGED netVars

SpecAuth == InitAuth /\ [][NextAuth]_vars

\* --- node staging in the builder ------------------------------------------
NextNodes ==
    \/ AddNode(NodeNames, RepresentsArgs, NodeIdArgs, DataTypeArgs) /\ UNCHANGED <<clientVars, styleVars>>
    \/ GetNiceCx /\ UNCHANGED <<clientVars, styleVars>>

SpecNodes == InitNet /\ [][NextNodes]_vars

\* --- attribute multiplicity: the builder path and the model path -----------
AttrValues == {PyStr("value"), PyStr("value2")}

NextAttr ==
    \/ AddNodeAttribute(Owners, {"attrname"}, AttrValues, {Absent})
          /\ UNCHANGED <<clientVars, styleVars>>
    \/ GetNiceCx /\ UNCHANGED <<clientVars, styleVars>>
    \/ SetNodeAttribute({PoInt(o) : o \in Owners}, {"attrname"}, AttrValues,
                        {Absent}, {FALSE})
          /\ UNCHANGED <<clientVars, styleVars>>

SpecAttr == InitNet /\ [][NextAttr]_vars

\* --- overwrite on the model -------------------------------------------------
NextOverwrite ==
    \/ SetNodeAttribute({PoInt(o) : o \in Owners}, AttrNames, AttrValues,
                        {Absent}, BOOLEAN)
          /\ UNCHANGED <<clientVars, styleVars>>

SpecOverwrite == InitNet /\ [][NextOverwrite]_vars

\* --- argument checks of set_node_attribute ----------------------------------
NextValidate ==
    \/ SetNodeAttribute({PoNone, PoInt(1), PoDict(1), PoDict(NoId)},
                        {"attrname", NoName}, {PyInt("5"), PyNone},
                        {Absent, "double"}, BOOLEAN)
          /\ UNCHANGED <<clientVars, styleVars>>

SpecValidate == InitNet /\ [][NextValidate]_vars

\* --- datatype inference ------------------------------------------------------
InferValues ==
    {PyInt("5"), PyFloat("5.5"), PyBool("True"), PyStr("value"),
     PyList(<<"str", "str">>, "['hi', 'bye']"),
     PyList(<<"int", "int">>, "[1, 2]"),
     PyList(<<"str", "int">>, "['hi', 1]"),
     PyDict("{'a': 1}")}

NextInfer ==
    \/ SetNodeAttribute({PoInt(1)}, {"attrname"}, InferValues,
                        {Absent, "double"}, BOOLEAN)
          /\ UNCHANGED <<clientVars, styleVars>>

SpecInfer == InitNet /\ [][NextInfer]_vars

\* --- failing calls on the network ----------------------------------------------
\* property_of of a staged attribute: an id, or the node or edge dict itself.
StagedOwners == {0, UnhashablePo}

FailingSources ==
    {SourceNone,
     SourceNet(<<[k |-> CyStyle, v |-> <<[properties_of |-> "network"]>>]>>)}

NextFail ==
    \/ SetName({"net1"}) /\ UNCHANGED <<clientVars, styleVars>>
    \/ AddNodeAttribute(StagedOwners, {"attrname"}, {PyStr("value")}, {Absent})
          /\ UNCHANGED <<clientVars, styleVars>>
    \/ AddEdgeAttribute({UnhashablePo}, {"attrname"}, {PyStr("value")}, {Absent})
          /\ UNCHANGED <<clientVars, styleVars>>
    \/ GetNiceCx /\ UNCHANGED <<clientVars, styleVars>>
    \/ SetNodeAttribute({PoNone, PoInt(0)}, {"attrname"}, {PyInt("5")},
                        {Absent}, {FALSE})
          /\ UNCHANGED <<clientVars, styleVars>>
    \/ ApplyStyleFromNetwork(FailingSources) /\ UNCHANGED clientVars

SpecFail == InitNet /\ [][NextFail]_vars

\* --- staging and building ---------------------------------------------------------
\* One item of every aspect is staged, in any order, around the builds.
NextBuild ==
    \/ SetContext /\ UNCHANGED <<clientVars, styleVars>>
    \/ SetName({"net1"}) /\ UNCHANGED <<clientVars, styleVars>>
    \/ AddNode({"bob"}, {Absent}, {NoId}, {Absent}) /\ UNCHANGED <<clientVars, styleVars>>
    \/ /\ node_attribute_inventory = <<>>
       /\ AddNodeAttribute({0}, {"attrname"}, {PyInt("5")}, {Absent})
       /\ UNCHANGED <<clientVars, styleVars>>
    \/ AddEdge({1}, {Absent}, {0}) /\ UNCHANGED <<clientVars, styleVars>>
    \/ /\ edge_attribute_inventory = <<>>
       /\ AddEdgeAttribute({0}, {"attrname"}, {PyInt("5")}, {Absent})
       /\ UNCHANGED <<clientVars, styleVars>>
    \/ /\ opaque_aspect_inventory = <<>>
       /\ AddOpaqueAspect({"aspectA"}, OpaqueLists \ {<<>>})
       /\ UNCHANGED <<clientVars, styleVars>>
    \/ GetNiceCx /\ UNCHANGED <<clientVars, styleVars>>

SpecBuild == InitNet /\ [][NextBuild]_vars

\* --- attribute types in the builder ------------------------------------------------
NextTypes ==
    \/ AddNodeAttribute({0}, {"attrname"}, {PyInt("5")}, {Absent, "double"})
          /\ UNCHANGED <<clientVars, styleVars>>
    \/ AddEdgeAttribute({0}, {"attrname"}, {PyInt("5")}, {Absent, "double"})
          /\ UNCHANGED <<clientVars, styleVars>>
    \/ GetNiceCx /\ UNCHANGED <<clientVars, styleVars>>

SpecTypes == InitNet /\ [][NextTypes]_vars

\* --- edges in the builder -----------------------------------------------------------
NextEdges ==
    \/ AddEdge(Owners, InteractionArgs, EdgeIdArgs)
          /\ UNCHANGED <<clientVars, styleVars>>
    \/ GetNiceCx /\ UNCHANGED <<clientVars, styleVars>>

SpecEdges == InitNet /\ [][NextEdges]_vars

\* --- relationship fragments ---------------------------------------------------------
NextFragments ==
    \/ AttributeFragment /\ UNCHANGED <<clientVars, styleVars>>
    \/ EdgeSupportsFragment /\ UNCHANGED <<clientVars, styleVars>>
    \/ CitationsFragment /\ UNCHANGED <<clientVars, styleVars>>

SpecFragments == InitNet /\ [][NextFragments]_vars

\* --- network attributes -------------------------------------------------------------
NextNetAttrs ==
    \/ SetName(NetworkNames) /\ UNCHANGED <<clientVars, styleVars>>
    \/ AddNetworkAttribute({"description"}, {Absent}) /\ UNCHANGED <<clientVars, styleVars>>
    \/ NetworkAttributeFragment /\ UNCHANGED <<clientVars, styleVars>>
    \/ GetNiceCx /\ UNCHANGED <<clientVars, styleVars>>

SpecNetAttrs == InitNet /\ [][NextNetAttrs]_vars

\* --- style transplant -------------------------------------------------------
NextStyle ==
    \/ ApplyStyleFromNetwork(SourceArgs) /\ UNCHANGED clientVars

SpecStyle == InitStyle /\ [][NextStyle]_vars

\* --- the request methods -----------------------------------------------------
\* A client with no list in hand, constructed with or without credentials.
InitUpload ==
    /\ cx = [kind |-> "None", items |-> <<>>]
    /\ InitSession
    /\ stream = NoStream
    /\ outcome = "idle"
    /\ posted = 0
    /\ calls = 0
    /\ cxBefore = cx
    /\ cxFirst = cx
    /\ InitBuilder
    /\ nice_cx = EmptyNet

InitRequests ==
    /\ InitUpload
    /\ InitHttp(UserAgentArgs, {ServerVersion(<<2, 0>>)})
    /\ IdleEncoder

NextRequests ==
    \/ SendRequest /\ UNCHANGED netVars

SpecRequests == InitRequests /\ [][NextRequests]_vars

\* --- visibility and neighbourhood query ------------------------------------------
InitVisibility ==
    /\ InitUpload
    /\ InitHttp({StrAgent(<<>>)}, StatusReports)
    /\ IdleEncoder

NextVisibility ==
    \/ MakeNetworkPublic /\ UNCHANGED netVars
    \/ MakeNetworkPrivate /\ UNCHANGED netVars
    \/ GetNeighborhood /\ UNCHANGED netVars

SpecVisibility == InitVisibility /\ [][NextVisibility]_vars

\* --- delete with retry ------------------------------------------------------------
InitDelete ==
    /\ InitUpload
    /\ IdleHttp

NextDelete ==
    \/ DeleteStart /\ UNCHANGED netVars
    \/ DeleteAttempt /\ UNCHANGED netVars

SpecDelete == InitDelete /\ [][NextDelete]_vars

\* The loop is straight-line code between requests, and every request ends
\* (with an answer or with an exception): a pass that can be taken is taken.
SpecDeleteFair == SpecDelete /\ WF_vars(DeleteAttempt /\ UNCHANGED netVars)

\* --- encoding ------------------------------------------------------------------------
InitEncode ==
    /\ IdleClient
    /\ InitBuilder
    /\ nice_cx = EmptyNet
    /\ InitHttp({StrAgent(<<>>)}, {ServerVersion(<<2, 0>>)})
    /\ encIn \in SeqsUpTo(EncValues, MaxEncLen)
    /\ encOut = NoEnc

NextEncode ==
    \/ EncodeCall /\ UNCHANGED netVars

SpecEncode == InitEncode /\ [][NextEncode]_vars


\* =========================================================================
\* Claims
\* =========================================================================

\* --- helpers over the serialized stream -----------------------------------
IsStatusBundle(j) == j.kind = "object" /\ j.aspect = "status" /\ j.val = "array"

StatusCount(body) == Cardinality({i \in 1..Len(body) : IsStatusBundle(body[i])})

\* C1: Builder node deduplication. An add_node call whose name is already
\* staged returns the id first assigned to that name, stages no new node and
\* leaves the staged node records and the node id counter unchanged.
C1_AddNodeDeduplicates ==
    (lastAdd.op = "add_node" /\ lastAdd.wasStaged) =>
        /\ lastAdd.ret = firstId[lastAdd.name]
        /\ node_inventory = lastAdd.invBefore
        /\ node_id_counter = lastAdd.counterBefore

\* C1 witness: a repeated add_node of a staged name, with both names staged
\* and the repeated name holding an explicitly given id.
C1_Witness ==
    /\ lastAdd.op = "add_node"
    /\ lastAdd.wasStaged
    /\ Len(node_inventory) = 2
    /\ lastAdd.ret = 7
    /\ node_id_counter = 1

\* C2: Status record exactly once. Every stream serialized for upload holds
\* exactly one status bundle, and that bundle is its last element.
C2_StatusExactlyOnceAndLast ==
    stream.made =>
        /\ StatusCount(stream.body) = 1
        /\ IsStatusBundle(stream.body[Len(stream.body)])

\* C3: Status normalization is idempotent. After a second (or later)
\* save_new_network call on the same in-memory list, the list equals what it
\* was after the first call, so the status bundle is never duplicated.
C3_NormalizationIdempotent ==
    calls >= 2 => cx = cxFirst

\* C3 witness: two calls went through on a list that had no trailing status
\* bundle, so the first call appended one.
C3_Witness ==
    /\ calls = 2
    /\ outcome = "ok"
    /\ Len(cx.items) = MaxCxLen + 1
    /\ cx.items[Len(cx.items)] = StatusBundle(StatusOk)
    /\ cx.items[1] = NodesBundle

\* C4: The final status bundle of every serialized stream holds exactly one
\* record, and that record carries an error string and a success boolean.
C4_FinalStatusHasOneRecord ==
    stream.made =>
        LET last == stream.body[Len(stream.body)] IN
        /\ IsStatusBundle(last)
        /\ Len(last.recs) = 1
        /\ last.recs[1].error # Absent
        /\ last.recs[1].success # Absent

\* --- helpers over attribute lists -------------------------------------------
Triple(a) == [po |-> a.po, n |-> a.n, v |-> a.v]

\* get_node_attributes(o), each record reduced to owner, name and value.
ModelTriples(o) ==
    [i \in 1..Len(nice_cx.nodeAttributes[o]) |-> Triple(nice_cx.nodeAttributes[o][i])]

\* The add_node_attribute calls for o that a get_nice_cx call has followed.
StagedFor(o) == SelectSeq(SubSeq(addLog, 1, flushed), LAMBDA a : a.po = o)

\* The successful set_node_attribute calls for o.
SetFor(o) == SelectSeq(setLog, LAMBDA a : a.po = o)

C6_OverwriteLeavesOneRecord ==
    (lastSet.op = "set_node_attribute" /\ lastSet.overwrite
        /\ lastSet.error = "none") =>
        /\ Len(nice_cx.nodeAttributes[lastSet.po.id]) = 1
        /\ ModelTriples(lastSet.po.id) =
               <<[po |-> lastSet.po.id, n |-> lastSet.n, v |-> lastSet.v]>>

\* C6 witness: an overwrite call on an owner that held a record of another
\* name and another value.
C6_Witness ==
    /\ lastSet.op = "set_node_attribute"
    /\ lastSet.overwrite
    /\ lastSet.error = "none"
    /\ Len(lastSet.attrsBefore[lastSet.po.id]) = 1
    /\ lastSet.attrsBefore[lastSet.po.id][1].n # lastSet.n
    /\ lastSet.attrsBefore[lastSet.po.id][1].v # lastSet.v
    /\ Len(nice_cx.nodeAttributes[lastSet.po.id]) = 1

\* C7: set_node_attribute input validation. property_of None fails with
\* 'Node attribute requires property_of'; otherwise a None name or value fails
\* with 'Node attribute requires the name and values property'; otherwise a
\* dict without an id fails with 'No id found in Node'; a failed call records
\* no attribute.
C7_SetNodeAttributeValidation ==
    lastSet.op = "set_node_attribute" =>
        /\ lastSet.po.kind = "None" =>
               lastSet.error = "NDExError: Node attribute requires property_of"
        /\ (lastSet.po.kind # "None"
               /\ (lastSet.n = NoName \/ lastSet.v = PyNone)) =>
               lastSet.error =
                   "NDExError: Node attribute requires the name and values property"
        /\ (lastSet.po = PoDict(NoId) /\ lastSet.n # NoName
               /\ lastSet.v # PyNone) =>
               lastSet.error = "NDExError: No id found in Node"
        /\ lastSet.error # "none" =>
               nice_cx.nodeAttributes = lastSet.attrsBefore

\* C7 witness: a call with an empty dict fails on a network that already
\* holds an attribute.
C7_Witness ==
    /\ lastSet.op = "set_node_attribute"
    /\ lastSet.po = PoDict(NoId)
    /\ lastSet.error = "NDExError: No id found in Node"
    /\ Len(nice_cx.nodeAttributes[1]) = 1

\* --- datatype inference -------------------------------------------------------
AllOfShape(elems, shape) ==
    elems # <<>> /\ \A i \in 1..Len(elems) : elems[i] = shape

\* The record the last successful set_node_attribute call stored.
LastStored ==
    LET l == nice_cx.nodeAttributes[lastSet.po.id] IN l[Len(l)]

InferredCall ==
    /\ lastSet.op = "set_node_attribute"
    /\ lastSet.error = "none"
    /\ lastSet.type = Absent

C9_ApplyStyleArgumentChecks ==
    lastStyle.op = "apply_style_from_network" =>
        /\ lastStyle.srcKind = "None" =>
               lastStyle.error = "TypeError: Object passed in is None"
        /\ lastStyle.srcKind = "str" =>
               lastStyle.error = "TypeError: Object passed in is not NiceCXNetwork"
        /\ (lastStyle.srcKind = "net" /\ lastStyle.srcSchema = "none") =>
               lastStyle.error = "NDExError: No visual style found in network"

\* C9 witness: a styled target was asked to take the style of a network
\* that has none.
C9_Witness ==
    /\ lastStyle.op = "apply_style_from_network"
    /\ lastStyle.srcKind = "net"
    /\ lastStyle.srcSchema = "none"
    /\ lastStyle.tgtLen = 2
    /\ lastStyle.error = "NDExError: No visual style found in network"

\* C10: Style transplant shape. After every successful
\* apply_style_from_network call the target's styling aspect has exactly the
\* 3 records network default, node default, edge default.
C10_TransplantLeavesThreeRecords ==
    (lastStyle.op = "apply_style_from_network" /\ lastStyle.error = "none") =>
        /\ DictHas(nice_cx.opaqueAspects, CyStyle)
        /\ Len(DictGet(nice_cx.opaqueAspects, CyStyle)) = 3
        /\ \A i \in 1..3 :
              DictGet(nice_cx.opaqueAspects, CyStyle)[i].properties_of =
                  DefaultCategories[i]

\* C10 witness: a second transplant, from a legacy-schema source with more
\* than 3 records, onto a target that already took a style.
C10_Witness ==
    /\ lastStyle.op = "apply_style_from_network"
    /\ lastStyle.error = "none"
    /\ applies = 2
    /\ lastStyle.srcSchema = "legacy"
    /\ lastStyle.srcLen > 3
    /\ lastStyle.tgtLen = 3
    /\ StyleLen(nice_cx.opaqueAspects) = 3


\* --- C11 ---------------------------------------------------------------------
\* C11: No partial mutation on failure. Whenever the last set_node_attribute,
\* apply_style_from_network or get_nice_cx call failed, the network holds
\* exactly what it held before that call.
C11_NoPartialMutation ==
    lastFail.op # "none" => Content(lastFail.after) = Content(lastFail.before)

\* --- C12 ---------------------------------------------------------------------
\* Position of an aspect in the stated build order.
BuildRank(c) ==
    CASE c = "context" -> 0
      [] c = "networkAttributes" -> 1
      [] c = "nodes" -> 2
      [] c = "nodeAttributes" -> 3
      [] c = "edges" -> 4
      [] c = "edgeAttributes" -> 5
      [] c = "opaqueAspects" -> 6

BuildAspects ==
    {"networkAttributes", "nodes", "nodeAttributes", "edges", "edgeAttributes",
     "opaqueAspects"}

Written(c) == \E i \in 1..Len(nice_cx.written) : nice_cx.written[i] = c

\* C12: Build order. The writes of a get_nice_cx call come in the order
\* network attributes, nodes, node attributes, edges, edge attributes,
\* opaque aspects: no write of a later aspect precedes one of an earlier.
C12_BuildOrder ==
    \A i, j \in 1..Len(nice_cx.written) :
        i < j => BuildRank(nice_cx.written[i]) <= BuildRank(nice_cx.written[j])

\* C12 witness: a second build that wrote items of all six aspects.
C12_Witness ==
    /\ builds = 2
    /\ lastFail.op = "none"
    /\ \A c \in BuildAspects : Written(c)

\* --- C13 ---------------------------------------------------------------------
\* The add_edge_attribute calls for o.
StagedEdgeAttributesFor(o) ==
    SelectSeq(edge_attribute_inventory, LAMBDA a : a.po = o)

\* C13: Build produces a model holding each staged item exactly once. After
\* any number of get_nice_cx calls, every owner's node attributes are the
\* records staged for it up to the last call, once each and in call order,
\* and its edge attributes are no more than the records staged for it.
C13_BuildHoldsEachItemOnce ==
    builds >= 1 =>
        \A o \in Owners :
            /\ ModelTriples(o) = StagedFor(o)
            /\ Len(nice_cx.edgeAttributes[o]) <= Len(StagedEdgeAttributesFor(o))

\* --- C14 ---------------------------------------------------------------------
\* The citation or support ids an index holds for element e.
IdsFor(index, e) ==
    IF DictHas(index, e)
    THEN {DictGet(index, e)[i] : i \in 1..Len(DictGet(index, e))}
    ELSE {}

\* s is the beginning of t.
IsPrefix(s, t) == Len(s) <= Len(t) /\ SubSeq(t, 1, Len(s)) = s

\* Everything net1 records for element e is recorded for e in net2.
StillRecorded(net1, net2, e) ==
    /\ IsPrefix(net1.nodeAttributes[e], net2.nodeAttributes[e])
    /\ IsPrefix(net1.edgeAttributes[e], net2.edgeAttributes[e])
    /\ IdsFor(net1.nodeCitations, e) \subseteq IdsFor(net2.nodeCitations, e)
    /\ IdsFor(net1.edgeCitations, e) \subseteq IdsFor(net2.edgeCitations, e)
    /\ IdsFor(net1.edgeSupports, e) \subseteq IdsFor(net2.edgeSupports, e)

\* C14: Relationship fragments are append-only. After a node-attribute,
\* edge-attribute, node-citation, edge-citation or edge-support fragment for
\* an element, everything recorded for that element before the fragment is
\* still recorded for it.
C14_FragmentsAppendOnly ==
    lastFrag.op # "none" =>
        \A e \in lastFrag.po : StillRecorded(lastFrag.before, nice_cx, e)

\* --- C15 ---------------------------------------------------------------------
\* The records the network holds under one attribute name.
NetworkAttributesNamed(name) ==
    SelectSeq(nice_cx.networkAttributes, LAMBDA e : e.k = name)

\* C15: Network attributes have one slot per name. The network holds at most
\* one record per name, and that record is the one set last for the name
\* (or the one set last is staged and waits for the next get_nice_cx).
C15_OneSlotPerName ==
    \A name \in NetAttrNames :
        /\ Len(NetworkAttributesNamed(name)) <= 1
        /\ Len(NetworkAttributesNamed(name)) = 1 =>
              \/ NetworkAttributesNamed(name)[1].v = lastNetAttr[name]
              \/ /\ DictHas(network_attribute_inventory, name)
                 /\ DictGet(network_attribute_inventory, name) = lastNetAttr[name]

\* --- C16 ---------------------------------------------------------------------
\* The nodes the last get_nice_cx wrote: one per name staged by then.
NodesWritten ==
    Cardinality({i \in 1..Len(nice_cx.written) : nice_cx.written[i] = "nodes"})

\* C16: Node identifier uniqueness in the builder. No two staged nodes share
\* an id, so the network get_nice_cx returns holds one node per staged name.
C16_NodeIdsUnique ==
    /\ \A i, j \in 1..Len(node_inventory) :
          i # j => node_inventory[i].v.id # node_inventory[j].v.id
    /\ builds >= 1 => Len(nice_cx.nodes) = NodesWritten

\* --- C17 ---------------------------------------------------------------------
ScalarDatatypes == {"string", "boolean", "integer", "long", "double"}

\* The fixed datatype vocabulary.
DatatypeVocabulary ==
    ScalarDatatypes \cup {"list_of_" \o t : t \in ScalarDatatypes}

\* Every record of a list of attribute records carries a known datatype.
AllTyped(recs) == \A i \in 1..Len(recs) : recs[i].d \in DatatypeVocabulary

\* C17: Every node-attribute and edge-attribute record of the network that
\* get_nice_cx returns carries a datatype of the fixed vocabulary, also when
\* it was staged without a type.
C17_BuiltAttributesTyped ==
    builds >= 1 =>
        \A o \in Owners :
            /\ AllTyped(nice_cx.nodeAttributes[o])
            /\ AllTyped(nice_cx.edgeAttributes[o])

\* --- C18 ---------------------------------------------------------------------
\* C18: Edge default interaction. add_edge stages the edge with interaction
\* 'interacts-with' when the interaction is omitted, and stores an
\* interaction string that was passed as it was given.
C18_EdgeDefaultInteraction ==
    lastEdge.op = "add_edge" =>
        /\ lastEdge.staged.id = lastEdge.ret
        /\ lastEdge.interaction = Absent => lastEdge.staged.i = "interacts-with"
        /\ lastEdge.interaction # Absent => lastEdge.staged.i = lastEdge.interaction

\* --- C19 ---------------------------------------------------------------------
\* C19: Authentication gate. On a client constructed without both a username
\* and a password, a call of an operation documented to raise
\* NDExUnauthorizedError raises it and sends no HTTP request.
C19_AuthenticationGate ==
    (lastOp.op \in GatedOps /\ ~(creds.username /\ creds.password)) =>
        /\ lastOp.outcome = "NDExUnauthorizedError"
        /\ ~lastOp.sent

\* --- C20 ---------------------------------------------------------------------
\* C20: save_new_network input classification is total. A call either raises
\* NDExInvalidCXError without building a stream or sending a request (cx is
\* None, no list or an empty list), or builds the stream and hands it to
\* save_cx_stream_as_new_network; it ends with no other error.
C20_ClassificationTotal ==
    calls >= 1 =>
        IF cxBefore.kind # "list" \/ Len(cxBefore.items) = 0
        THEN /\ outcome \in {"NDExInvalidCXError: CX is None",
                             "NDExInvalidCXError: CX is not a list",
                             "NDExInvalidCXError: CX appears to be empty"}
             /\ posted = 0
        ELSE /\ outcome \in {"ok", "HTTPError", "NDExUnauthorizedError"}
             /\ stream.made

\* --- C21 ---------------------------------------------------------------------
\* C21: User-Agent header. Every request a request method sends (get,
\* get_stream, post, post_stream, put, delete, put_multipart, post_multipart)
\* carries a User-Agent equal to the library agent string, followed by a
\* space and the user_agent given at construction when that is non-empty and
\* by nothing when it is empty or None, whatever was sent before.
ExpectedAgent ==
    IF ua_arg.kind = "str" /\ ua_arg.text # <<>>
    THEN LibAgent \o <<" ">> \o ua_arg.text
    ELSE LibAgent

C21_UserAgentOnEveryRequest ==
    lastReq.sender # "none" => lastReq.headers["User-Agent"] = ExpectedAgent

\* A multipart POST sent after two other requests carries the suffixed agent.
C21_Witness ==
    /\ sent >= 3
    /\ ua_arg = StrAgent(<<"jeez">>)
    /\ lastReq.sender = "post_multipart"
    /\ lastReq.headers["User-Agent"] = <<"NDEx2-Python/", "__version__", " ", "jeez">>

\* --- C22 ---------------------------------------------------------------------
\* C22: make_network_public and make_network_private. On a client that holds
\* credentials and is connected to a server whose reported ServerVersion
\* starts with '2.', the call sends a request that sets the visibility to
\* PUBLIC (respectively PRIVATE) and raises nothing of its own: it ends as
\* the server answered.
Reported2x == reported.kind = "ServerVersion" /\ StartsWith2(reported.pv)

VisibilityOf(op) ==
    IF op = "make_network_public" THEN "visibility=PUBLIC"
    ELSE "visibility=PRIVATE"

C22_VisibilityOnAny2xServer ==
    (/\ lastCall.op \in {"make_network_public", "make_network_private"}
     /\ auth
     /\ Reported2x) =>
        /\ lastCall.sent
        /\ lastCall.body = VisibilityOf(lastCall.op)
        /\ lastReq.body = VisibilityOf(lastCall.op)
        /\ lastCall.outcome \in {"ok", "HTTPError"}

\* --- C23 ---------------------------------------------------------------------
\* C23: Bounded delete retry. delete_network(network_id, retry=n) and
\* delete_networks_from_networkset(..., retry=n) always terminate, send at
\* most n DELETE requests, return on the first request that succeeds
\* without sending another, and raise 'Network is locked after n retry.'
\* when all n attempts met an NDEx_Concurrent_Modification error.
DeleteDone == deleting.pc \in {"returned", "raised"}

AllConflicts(log) == \A i \in 1..Len(log) : log[i] = "conflict"

DeleteRetrySafety ==
    /\ Len(deleting.log) <= deleting.retry
    /\ \A i \in 1..Len(deleting.log) :
          deleting.log[i] = "ok" => i = Len(deleting.log)
    /\ deleting.pc = "returned" <=>
          (deleting.log # <<>> /\ deleting.log[Len(deleting.log)] = "ok")
    /\ (/\ DeleteDone
        /\ deleting.error # "NDExUnauthorizedError"
        /\ Len(deleting.log) = deleting.retry
        /\ AllConflicts(deleting.log)) =>
          (deleting.pc = "raised" /\ deleting.error = Locked)

C23_BoundedDeleteRetry ==
    /\ []DeleteRetrySafety
    /\ (deleting.pc = "loop") ~> DeleteDone

\* Three attempts were allowed, each met a conflict, and the call raised.
C23_Witness ==
    /\ deleting.retry = 3
    /\ deleting.log = <<"conflict", "conflict", "conflict">>
    /\ deleting.pc = "raised"
    /\ deleting.error = Locked

\* --- C24 ---------------------------------------------------------------------
\* C24: Non-conflict delete failures propagate unchanged. When a DELETE
\* attempt fails with anything other than an NDEx_Concurrent_Modification
\* error, also with no server response or with a response that has no
\* errorCode, no further attempt is made and the caller receives the
\* failure that self.delete raised.
C24_NonConflictFailurePropagates ==
    \A i \in 1..Len(deleting.log) :
        deleting.log[i] \notin {"ok", "conflict"} =>
            /\ i = Len(deleting.log)
            /\ deleting.pc = "raised"
            /\ deleting.error = Raised(deleting.log[i])

\* --- C25 ---------------------------------------------------------------------
\* C25: get_neighborhood raises its 'not supported for versions prior to
\* 2.0' exception only when the server's version is earlier than 2.0; on a
\* client connected to a server whose reported ServerVersion starts with
\* '2.' it returns the CX of the query response (unless the query itself
\* was refused).
C25_NeighborhoodOnAny2xServer ==
    lastCall.op = "get_neighborhood" =>
        /\ lastCall.outcome = NotSupported => ~Reported2x
        /\ Reported2x =>
              lastCall.outcome \in {"returned data", "returned cx", "HTTPError"}

\* --- C26 ---------------------------------------------------------------------
\* C26: Builder edge id allocation never overwrites. An add_edge call
\* without an explicit id (the only step that moves edge_id_counter) stages
\* its edge under an id that no staged edge holds, so it replaces no staged
\* edge, also when earlier calls supplied explicit ids.
C26_AutoIdNeverOverwrites ==
    [][edge_id_counter' # edge_id_counter =>
          /\ lastEdge'.ret = edge_id_counter
          /\ ~DictHas(edge_inventory, lastEdge'.ret)
          /\ Len(edge_inventory') = Len(edge_inventory) + 1]_vars

\* --- C27 ---------------------------------------------------------------------
\* C27: Request headers do not depend on history. The headers that get,
\* delete and get_stream send are those the same method sends on a client
\* that has sent nothing yet, whatever the client did before; and no request
\* method changes the persistent headers of the session (other than the
\* User-Agent, which every request carries with the same value).
FreshHeaders(sender) == WireHeaders(sender, DefaultHeaders)

C27_HeadersIndependentOfHistory ==
    /\ lastReq.sender \in {"get", "delete", "get_stream"} =>
          lastReq.headers = FreshHeaders(lastReq.sender)
    /\ \A n \in HeaderNames \ {"User-Agent"} : s_headers[n] = DefaultHeaders[n]

\* --- C28 ---------------------------------------------------------------------
\* C28: A failed upload leaves the caller's data unchanged. When
\* save_new_network fails after validation (with NDExUnauthorizedError
\* because no credentials are set, or with a transport error), the cx list
\* the caller passed is exactly as it was before the call.
C28_FailedUploadLeavesCxUnchanged ==
    (calls >= 1 /\ outcome \in {"NDExUnauthorizedError", "HTTPError"}) =>
        cx = cxBefore

\* --- C29 ---------------------------------------------------------------------
\* C29: Encoding always ends with a value or a local error. DecimalEncoder
\* maps a Decimal to a float, a numpy integer to an int and bytes to their
\* ASCII text (failing when the bytes are not ASCII); for a value of any
\* other unsupported type it fails with an encoding error at the point of
\* the call, without re-entering the encoder.
Encodable(v) == v.type \in JsonTypes \cup {"Decimal", "numpy.integer", "bytes"}

ExpectedJson(v) ==
    CASE v.type = "Decimal" -> "float"
      [] v.type = "numpy.integer" -> "int"
      [] v.type = "bytes" -> "str"
      [] OTHER -> v.type

\* The first element of the list that cannot be encoded, or 0.
FirstFailing(items) ==
    IF \A i \in 1..Len(items) : Encodable(items[i]) THEN 0
    ELSE CHOOSE i \in 1..Len(items) :
            /\ ~Encodable(items[i])
            /\ \A j \in 1..(i - 1) : Encodable(items[j])

C29_EncodingEndsLocally ==
    encOut.done =>
        LET f == FirstFailing(encIn) IN
        /\ encOut.reentries = 0
        /\ IF f = 0
           THEN /\ encOut.status = "ok"
                /\ encOut.json = [i \in 1..Len(encIn) |-> ExpectedJson(encIn[i])]
           ELSE IF encIn[f].type = "bytes-nonascii"
           THEN encOut.status = "UnicodeDecodeError"
           ELSE encOut.status = "TypeError"

=============================================================================
